---- MODULE Spec2Model ----
(***************************************************************************)
(* A model of the rust-ecs core: EntityTree (entity_tree.rs), its          *)
(* pre-order iterator, and EntityComponentManager                          *)
(* (entity_component_manager.rs).                                          *)
(*                                                                         *)
(* Three specifications share the variables:                               *)
(*   SpecTree   an EntityTree driven by arbitrary calls of its API         *)
(*   SpecBuild  an EntityTree built the disciplined way of the tests       *)
(*   SpecMgr    an EntityComponentManager (root/children/parent are then   *)
(*              the fields of its private tree `entites`)                  *)
(***************************************************************************)
EXTENDS Integers, Sequences, FiniteSets, TLC

VARIABLES
    root,             \* EntityTree.root : Option<Entity>
    children,         \* EntityTree.children : BTreeMap<Entity, Vec<Entity>>
    parent,           \* EntityTree.parent : BTreeMap<Entity, Option<Entity>>
    iter,             \* the EntityTreeIterator borrowed from the tree, if any
    component_store,  \* EntityComponentManager.component_store
    entity_counter,   \* EntityComponentManager.entity_counter (the raw u64)
    returned,         \* history: the ids create_entity has returned, in order
    calls,            \* history: how many mutating calls were made so far
    pre,              \* history: the state the last call started from
    last              \* history: the last call, its arguments and its result

vars == <<root, children, parent, iter, component_store, entity_counter,
          returned, calls, pre, last>>

----------------------------------------------------------------------------
(* Bounds of the model *)

\* SpecTree: the entities are the raw ids 1..MaxEntity
MaxEntity == 3
\* SpecTree: at most this many mutating calls are made on the tree
MaxCalls == 4
\* SpecBuild: the tree is built from the entities 1..MaxBuildEntity
MaxBuildEntity == 4
\* next() is called at most this many times after it has returned None
MaxNoneCalls == 2
\* SpecMgr: create_entity is called at most this many times, and the calls
\* name the entities 1..MaxMgrEntity (created or not)
MaxMgrEntity == 2
\* SpecMgr: at most this many mutating calls are made on the manager
MaxMgrCalls == 4
\* SpecMgr: the component values of every type are 1..MaxValue
MaxValue == 2

----------------------------------------------------------------------------
(* entity.rs *)

\* Entity::none() is the raw id 0, which is no real entity: the calls of the
\* model pass it only where the code tests for it, as add_child's parent
none == 0
Entities == 1..MaxEntity
is_none(e) == e = none
is_some(e) == ~is_none(e)

\* Option<Entity>
None == <<>>
Some(e) == <<e>>
unwrap(o) == o[1]

----------------------------------------------------------------------------
(* error.rs, Result<(), EcsError> *)

Ok == [kind |-> "Ok", entity |-> none]
NoRootEntity == [kind |-> "NoRootEntity", entity |-> none]
EntityNotFound(e) == [kind |-> "EntityNotFound", entity |-> e]

----------------------------------------------------------------------------
(* BTreeMap / HashMap as functions whose DOMAIN is the key set *)

EmptyMap == [k \in {} |-> <<>>]
MapInsert(m, k, v) == [x \in (DOMAIN m) \cup {k} |-> IF x = k THEN v ELSE m[x]]
MapRemove(m, k) == [x \in (DOMAIN m) \ {k} |-> m[x]]
contains_key(m, k) == k \in DOMAIN m

----------------------------------------------------------------------------
(* entity_tree.rs : EntityTree *)

Tree == [root |-> root, children |-> children, parent |-> parent]

DefaultTree == [root |-> None, children |-> EmptyMap, parent |-> EmptyMap]

set_root(t, entity) == [t EXCEPT !.root = Some(entity)]

insert_node(t, entity) ==
    [t EXCEPT !.children = MapInsert(t.children, entity, <<>>),
              !.parent = MapInsert(t.parent, entity, None)]

\* remove that also takes the entity out of its parent's children sequence
remove_unlink(t, entity) ==
    LET unlinked ==
            IF /\ contains_key(t.parent, entity)
               /\ t.parent[entity] # None
               /\ contains_key(t.children, unwrap(t.parent[entity]))
            THEN [t.children EXCEPT ![unwrap(t.parent[entity])] =
                        SelectSeq(@, LAMBDA x : x # entity)]
            ELSE t.children
    IN  [t EXCEPT !.children = MapRemove(unlinked, entity),
                  !.parent = MapRemove(t.parent, entity)]

remove(t, entity) ==
    [t EXCEPT !.children = MapRemove(t.children, entity),
              !.parent = MapRemove(t.parent, entity)]

len(t) == Cardinality(DOMAIN t.children)

\* the link without line 61: the child gets no entry in `children`
AddChildLink_no_register(t, p, child) ==
    [tree |-> [t EXCEPT !.parent = MapInsert(t.parent, child, Some(p)),
                        !.children = [t.children EXCEPT ![p] = Append(@, child)]],
     result |-> Ok]

\* lines 44-45 and 60-62: the parent is a key of `children`
AddChildLink(t, p, child) ==
    LET pushed == [t.children EXCEPT ![p] = Append(@, child)]
    IN  [tree |-> [t EXCEPT !.parent = MapInsert(t.parent, child, Some(p)),
                            !.children = MapInsert(pushed, child, <<>>)],
         result |-> Ok]

\* add_child with line 40 testing the root alone, not `parent.is_none() &&`
RECURSIVE add_child_root_only(_, _, _)
add_child_root_only(t, p, child) ==
    IF t.root = None
    THEN [tree |-> t, result |-> NoRootEntity]
    ELSE IF contains_key(t.children, p)
    THEN AddChildLink(t, p, child)
    ELSE IF p = unwrap(t.root)
    THEN [tree |-> t, result |-> EntityNotFound(p)]
    ELSE add_child_root_only(t, unwrap(t.root), child)

\* add_child recording the child's parent (line 60) before it looks the
\* parent up, so that a failing call leaves the entry behind
RECURSIVE add_child_insert_first(_, _, _)
add_child_insert_first(t, p, child) ==
    LET t1 == [t EXCEPT !.parent = MapInsert(t.parent, child, Some(p))] IN
    IF is_none(p) /\ t.root = None
    THEN [tree |-> t, result |-> NoRootEntity]
    ELSE IF contains_key(t.children, p)
    THEN AddChildLink(t, p, child)
    ELSE IF t.root # None
    THEN IF p = unwrap(t.root)
         THEN [tree |-> t1, result |-> EntityNotFound(p)]
         ELSE add_child_insert_first(t1, unwrap(t.root), child)
    ELSE [tree |-> t1, result |-> EntityNotFound(p)]

RECURSIVE add_child(_, _, _)
add_child(t, p, child) ==
    IF is_none(p) /\ t.root = None
    THEN [tree |-> t, result |-> NoRootEntity]
    ELSE IF contains_key(t.children, p)
    THEN AddChildLink(t, p, child)
    ELSE IF t.root # None
    THEN IF p = unwrap(t.root)
         THEN [tree |-> t, result |-> EntityNotFound(p)]
         ELSE add_child(t, unwrap(t.root), child)
    ELSE [tree |-> t, result |-> EntityNotFound(p)]

get_children(t, entity) ==
    IF contains_key(t.children, entity)
    THEN [kind |-> "Ok", value |-> t.children[entity]]
    ELSE [kind |-> "EntityNotFound", value |-> <<entity>>]

get_parent(t, entity) ==
    IF contains_key(t.parent, entity) /\ t.parent[entity] # None
    THEN [kind |-> "Ok", value |-> t.parent[entity]]
    ELSE [kind |-> "EntityNotFound", value |-> <<entity>>]

----------------------------------------------------------------------------
(* entity_tree.rs : EntityTreeIterator *)

\* what one call of next() does: the new cursor and what the call returns
\* (kind "Some" with the entity, "None", or "Panic")
Yield(o) == [current |-> o,
             kind |-> IF o = None THEN "None" ELSE "Some",
             entity |-> IF o = None THEN none ELSE unwrap(o)]
Panic(cur) == [current |-> cur, kind |-> "Panic", entity |-> none]
Hang(cur) == [current |-> cur, kind |-> "Hang", entity |-> none]

\* siblings.iter().position(|s| *s == x): the first index (1-based here), 0 if absent
position(siblings, x) ==
    IF \E i \in DOMAIN siblings : siblings[i] = x
    THEN CHOOSE i \in DOMAIN siblings :
            siblings[i] = x /\ \A j \in DOMAIN siblings : siblings[j] = x => i <= j
    ELSE 0

\* the loop of lines 127-139 giving up after one level instead of climbing
backtrack_no_climb(t, cur, iter_node, fuel) ==
    IF ~contains_key(t.parent, iter_node) THEN Panic(cur)
    ELSE IF t.parent[iter_node] = None
    THEN [current |-> cur, kind |-> "None", entity |-> none]
    ELSE LET p == unwrap(t.parent[iter_node]) IN
         IF ~contains_key(t.children, p) THEN Panic(cur)
         ELSE LET siblings == t.children[p]
                  pos == position(siblings, iter_node)
              IN  IF pos = 0 THEN Panic(cur)
                  ELSE IF pos + 1 <= Len(siblings)
                  THEN Yield(Some(siblings[pos + 1]))
                  ELSE [current |-> cur, kind |-> "None", entity |-> none]

\* the loop clearing the cursor when it runs out of ancestors, so that the
\* next call starts again from the root
RECURSIVE backtrack_reset(_, _, _, _)
backtrack_reset(t, cur, iter_node, fuel) ==
    IF ~contains_key(t.parent, iter_node) THEN Panic(cur)
    ELSE IF t.parent[iter_node] = None
    THEN Yield(None)
    ELSE LET p == unwrap(t.parent[iter_node]) IN
         IF ~contains_key(t.children, p) THEN Panic(cur)
         ELSE LET siblings == t.children[p]
                  pos == position(siblings, iter_node)
              IN  IF pos = 0 THEN Panic(cur)
                  ELSE IF pos + 1 <= Len(siblings)
                  THEN Yield(Some(siblings[pos + 1]))
                  ELSE IF fuel = 0 THEN Hang(cur)
                  ELSE backtrack_reset(t, cur, p, fuel - 1)

\* lines 127-139: the `while let Some(parent) = parent[&iter_node]` loop.
\* The loop's only state is iter_node, so a run longer than the number of
\* keys of `parent` never ends: `fuel` counts the iterations left.
RECURSIVE backtrack(_, _, _, _)
backtrack(t, cur, iter_node, fuel) ==
    IF ~contains_key(t.parent, iter_node) THEN Panic(cur)
    ELSE IF t.parent[iter_node] = None
    THEN [current |-> cur, kind |-> "None", entity |-> none]
    ELSE LET p == unwrap(t.parent[iter_node]) IN
         IF ~contains_key(t.children, p) THEN Panic(cur)
         ELSE LET siblings == t.children[p]
                  pos == position(siblings, iter_node)
              IN  IF pos = 0 THEN Panic(cur)
                  ELSE IF pos + 1 <= Len(siblings)
                  THEN Yield(Some(siblings[pos + 1]))
                  ELSE IF fuel = 0 THEN Hang(cur)
                  ELSE backtrack(t, cur, p, fuel - 1)

\* next() ending the traversal, instead of panicking, at a cursor that is
\* not a key of `children`
next_missing_is_end(t, cur) ==
    IF cur # None
    THEN LET current == unwrap(cur) IN
         IF ~contains_key(t.children, current)
         THEN [current |-> cur, kind |-> "None", entity |-> none]
         ELSE IF t.children[current] # <<>>
         THEN Yield(Some(t.children[current][1]))
         ELSE backtrack(t, cur, current, Cardinality(DOMAIN t.parent))
    ELSE Yield(t.root)

next(t, cur) ==
    IF cur # None
    THEN LET current == unwrap(cur) IN
         IF ~contains_key(t.children, current) THEN Panic(cur)
         ELSE IF t.children[current] # <<>>
         THEN Yield(Some(t.children[current][1]))
         ELSE backtrack(t, cur, current, Cardinality(DOMAIN t.parent))
    ELSE Yield(t.root)

\* no iterator borrows the tree
NoIter == [active |-> FALSE, current |-> None, yielded |-> <<>>,
           status |-> "idle", nones |-> 0]

\* into_iter(), lines 101-106
into_iter == [active |-> TRUE, current |-> None, yielded |-> <<>>,
              status |-> "running", nones |-> 0]

\* the iterator after one more call of next() on tree t
IterStep(t, it) ==
    LET r == next(t, it.current) IN
    [active |-> TRUE,
     current |-> r.current,
     yielded |-> IF r.kind = "Some" THEN Append(it.yielded, r.entity) ELSE it.yielded,
     status |-> IF r.kind = "Some" THEN "running" ELSE r.kind,
     nones |-> IF r.kind = "None" THEN it.nones + 1 ELSE it.nones]

\* an iterator that yielded more entities than there are ids yields for ever
\* (its only state is `current`, and the tree cannot change while it is borrowed)
MaxYield == IF MaxEntity > MaxBuildEntity THEN MaxEntity + 2 ELSE MaxBuildEntity + 2

----------------------------------------------------------------------------
(* history *)

NoCall == [op |-> "new", a |-> none, b |-> none, result |-> Ok]
Call(op, a, b, result) == [op |-> op, a |-> a, b |-> b, result |-> result]

SetTree(t) ==
    /\ root' = t.root
    /\ children' = t.children
    /\ parent' = t.parent

MgrUnchanged == UNCHANGED <<component_store, entity_counter, returned>>

\* a mutating call on an EntityTree that no iterator borrows
TreeCall(t, call) ==
    /\ ~iter.active
    /\ calls < MaxCalls
    /\ calls' = calls + 1
    /\ SetTree(t)
    /\ pre' = Tree
    /\ last' = call
    /\ UNCHANGED iter
    /\ MgrUnchanged

----------------------------------------------------------------------------
(* SpecTree: an EntityTree under arbitrary calls *)

Init ==
    /\ root = None
    /\ children = EmptyMap
    /\ parent = EmptyMap
    /\ iter = NoIter
    /\ component_store = EmptyMap
    /\ entity_counter = 0
    /\ returned = <<>>
    /\ calls = 0
    /\ pre = DefaultTree
    /\ last = NoCall

TreeInsertNode ==
    \E e \in Entities :
        TreeCall(insert_node(Tree, e), Call("insert_node", e, none, Ok))

TreeSetRoot ==
    \E e \in Entities :
        TreeCall(set_root(Tree, e), Call("set_root", e, none, Ok))

TreeAddChild ==
    \E p \in Entities \cup {none}, c \in Entities :
        LET r == add_child(Tree, p, c) IN
        TreeCall(r.tree, Call("add_child", p, c, r.result))

TreeRemove ==
    \E e \in Entities :
        TreeCall(remove(Tree, e), Call("remove", e, none, Ok))

IntoIter ==
    /\ ~iter.active
    /\ iter' = into_iter
    /\ pre' = Tree
    /\ last' = Call("into_iter", none, none, Ok)
    /\ UNCHANGED <<root, children, parent, calls>>
    /\ MgrUnchanged

IterNext ==
    /\ iter.active
    /\ iter.status \in {"running", "None"}
    /\ Len(iter.yielded) < MaxYield
    /\ iter.nones < MaxNoneCalls
    /\ iter' = IterStep(Tree, iter)
    /\ UNCHANGED <<root, children, parent, calls, pre, last>>
    /\ MgrUnchanged

DropIter ==
    /\ iter.active
    /\ iter' = NoIter
    /\ UNCHANGED <<root, children, parent, calls, pre, last>>
    /\ MgrUnchanged

NextTree ==
    \/ TreeInsertNode
    \/ TreeSetRoot
    \/ TreeAddChild
    \/ TreeRemove
    \/ IntoIter
    \/ IterNext
    \/ DropIter

SpecTree == Init /\ [][NextTree]_vars

\* SpecLink: an EntityTree built with insert_node, set_root and add_child
\* alone
NextLink ==
    \/ TreeInsertNode
    \/ TreeSetRoot
    \/ TreeAddChild

SpecLink == Init /\ [][NextLink]_vars

----------------------------------------------------------------------------
(* SpecBuild: the tree of tests::test_tree_iterator, generalised:          *)
(* insert_node(r), set_root(r), then add_child(p, c) with p registered     *)
(* and c not yet in the tree                                               *)

BuildEntities == 1..MaxBuildEntity

BuildCall(t, call) ==
    /\ ~iter.active
    /\ SetTree(t)
    /\ pre' = Tree
    /\ last' = call
    /\ UNCHANGED <<iter, calls>>
    /\ MgrUnchanged

BuildInsertRoot ==
    \E r \in BuildEntities :
        /\ DOMAIN children = {}
        /\ root = None
        /\ BuildCall(insert_node(Tree, r), Call("insert_node", r, none, Ok))

BuildSetRoot ==
    \E r \in DOMAIN children :
        /\ root = None
        /\ BuildCall(set_root(Tree, r), Call("set_root", r, none, Ok))

BuildAddChild ==
    \E p \in DOMAIN children, c \in BuildEntities \ DOMAIN children :
        LET r == add_child(Tree, p, c) IN
        /\ root # None
        /\ BuildCall(r.tree, Call("add_child", p, c, r.result))

NextBuild ==
    \/ BuildInsertRoot
    \/ BuildSetRoot
    \/ BuildAddChild
    \/ IntoIter
    \/ IterNext
    \/ DropIter

SpecBuild == Init /\ [][NextBuild]_vars

----------------------------------------------------------------------------
(* entity_component_manager.rs : EntityComponentManager *)

\* The component types T of the calls. The store keys an entry by
\* std::any::type_name::<T>() and tags the boxed value with T's TypeId.
\* type_name is not injective (its documentation: "multiple types may map to
\* the same type name", lifetimes are not printed): the two 'static function
\* pointer types below are distinct types with one name.
ComponentTypes == {"i32", "fn(&'static str)", "for<'a> fn(&'a str)"}

type_name(T) ==
    IF T \in {"fn(&'static str)", "for<'a> fn(&'a str)"} THEN "fn(&str)" ELSE T

Values == 1..MaxValue
MgrEntities == 1..MaxMgrEntity

\* Box<dyn Any> holding a value of type T
Box(T, v) == [type |-> T, value |-> v]

\* a downcast that trusts the key and does not compare the TypeId
downcast_unchecked(box, T) == Some(box.value)

\* <dyn Any>::downcast_ref::<T>(): Some only for a box whose TypeId is T's
downcast_ref(box, T) == IF box.type = T THEN Some(box.value) ELSE None

\* <dyn Any>::downcast_mut::<T>()
downcast_mut(box, T) == IF box.type = T THEN Some(box.value) ELSE None

Mgr == [component_store |-> component_store, entites |-> Tree,
        entity_counter |-> entity_counter]

DefaultMgr == [component_store |-> EmptyMap, entites |-> DefaultTree,
               entity_counter |-> 0]

\* create_entity taking the id from the number of live entities
create_entity_from_len(m) ==
    LET c == len(m.entites) + 1 IN
    [mgr |-> [m EXCEPT !.entity_counter = c,
                       !.entites = insert_node(m.entites, c)],
     result |-> c]

\* lines 24-28; the u64 counter stays far below 2^64 here
create_entity(m) ==
    LET c == m.entity_counter + 1 IN
    [mgr |-> [m EXCEPT !.entity_counter = c,
                       !.entites = insert_node(m.entites, c)],
     result |-> c]

\* retain with the predicate inverted: keeps the entity's entries only
retain_inverted(store, entity) ==
    [k \in {x \in DOMAIN store : x[1] = entity} |-> store[k]]

\* HashMap::retain(|(e, _), _| *e != entity)
retain(store, entity) ==
    [k \in {x \in DOMAIN store : x[1] # entity} |-> store[k]]

\* delete_entity without line 31, the removal from the tree
delete_entity_store_only(m, entity) ==
    [m EXCEPT !.component_store = retain(m.component_store, entity)]

delete_entity(m, entity) ==
    [m EXCEPT !.entites = remove(m.entites, entity),
              !.component_store = retain(m.component_store, entity)]

insert_component(m, entity, T, component) ==
    [m EXCEPT !.component_store =
        MapInsert(m.component_store, <<entity, type_name(T)>>, Box(T, component))]

get_component(m, entity, T) ==
    IF contains_key(m.component_store, <<entity, type_name(T)>>)
    THEN downcast_ref(m.component_store[<<entity, type_name(T)>>], T)
    ELSE None

get_component_mut(m, entity, T) ==
    IF contains_key(m.component_store, <<entity, type_name(T)>>)
    THEN downcast_mut(m.component_store[<<entity, type_name(T)>>], T)
    ELSE None

remove_component(m, entity, T) ==
    [m EXCEPT !.component_store =
        MapRemove(m.component_store, <<entity, type_name(T)>>)]

\* a query that selects the entries by the type name in the key
queury_by_type_name(m, T) ==
    [k \in {x \in DOMAIN m.component_store : x[2] = type_name(T)} |->
        <<k[1], m.component_store[k].value>>]

\* lines 59-65: one (entity, value) pair for every store entry whose boxed
\* value is::<T>(); the Vec follows the HashMap's iteration order, which is
\* unspecified, so the result is kept as the pairs indexed by their entries
queury_component(m, T) ==
    [k \in {x \in DOMAIN m.component_store : m.component_store[x].type = T} |->
        <<k[1], unwrap(downcast_ref(m.component_store[k], T))>>]

----------------------------------------------------------------------------
(* SpecMgr: an EntityComponentManager under arbitrary calls *)

InitMgr ==
    /\ root = None
    /\ children = EmptyMap
    /\ parent = EmptyMap
    /\ iter = NoIter
    /\ component_store = EmptyMap
    /\ entity_counter = 0
    /\ returned = <<>>
    /\ calls = 0
    /\ pre = DefaultMgr
    /\ last = [op |-> "default", entity |-> none, type |-> "", value |-> 0]

MgrCall(m, call) ==
    /\ calls < MaxMgrCalls
    /\ calls' = calls + 1
    /\ SetTree(m.entites)
    /\ component_store' = m.component_store
    /\ entity_counter' = m.entity_counter
    /\ pre' = Mgr
    /\ last' = call
    /\ UNCHANGED iter

MgrCreateEntity ==
    LET r == create_entity(Mgr) IN
    /\ entity_counter < MaxMgrEntity
    /\ MgrCall(r.mgr, [op |-> "create_entity", entity |-> r.result,
                       type |-> "", value |-> 0])
    /\ returned' = Append(returned, r.result)

MgrDeleteEntity ==
    \E e \in MgrEntities :
        /\ MgrCall(delete_entity(Mgr, e),
                   [op |-> "delete_entity", entity |-> e, type |-> "", value |-> 0])
        /\ UNCHANGED returned

MgrInsertComponent ==
    \E e \in MgrEntities, T \in ComponentTypes, v \in Values :
        /\ MgrCall(insert_component(Mgr, e, T, v),
                   [op |-> "insert_component", entity |-> e, type |-> T, value |-> v])
        /\ UNCHANGED returned

MgrRemoveComponent ==
    \E e \in MgrEntities, T \in ComponentTypes :
        /\ MgrCall(remove_component(Mgr, e, T),
                   [op |-> "remove_component", entity |-> e, type |-> T, value |-> 0])
        /\ UNCHANGED returned

NextMgr ==
    \/ MgrCreateEntity
    \/ MgrDeleteEntity
    \/ MgrInsertComponent
    \/ MgrRemoveComponent

SpecMgr == InitMgr /\ [][NextMgr]_vars

----------------------------------------------------------------------------
(* Claims about the traversal *)

\* the recursive pre-order sequence from e: e, then each child's whole
\* subtree, the children taken in the order of e's children vector
RECURSIVE PreOrder(_, _)
RECURSIVE PreOrderAll(_, _)
PreOrder(t, e) == <<e>> \o PreOrderAll(t, t.children[e])
PreOrderAll(t, es) ==
    IF es = <<>> THEN <<>> ELSE PreOrder(t, Head(es)) \o PreOrderAll(t, Tail(es))

\* the entities below the set S through the children mapping, S included
RECURSIVE Below(_, _)
Below(t, S) ==
    LET more == S \cup UNION {{t.children[e][i] : i \in DOMAIN t.children[e]} :
                                e \in S \cap DOMAIN t.children}
    IN  IF more = S THEN S ELSE Below(t, more)

\* C1: on a tree built by insert_node(r), set_root(r) and add_child(p, c)
\* calls with p registered and c fresh, the iterator never faults, what it
\* has yielded so far is a prefix of the recursive pre-order sequence from
\* the root, and when next() returns None it has yielded exactly that
\* sequence, which holds every registered entity exactly once.
C1_PreOrderTraversal ==
    (iter.active /\ root # None) =>
        LET order == PreOrder(Tree, unwrap(root)) IN
        /\ iter.status \in {"running", "None"}
        /\ Len(iter.yielded) <= Len(order)
        /\ iter.yielded = SubSeq(order, 1, Len(iter.yielded))
        /\ iter.status = "None" =>
                /\ iter.yielded = order
                /\ {order[i] : i \in DOMAIN order} = DOMAIN children
                /\ Len(order) = Cardinality(DOMAIN children)

\* the tree of tests::test_tree_iterator, walked to the end: R, C1, C2 and
\* C3 below C2
C1_Witness ==
    /\ iter.active /\ iter.status = "None" /\ root # None
    /\ Len(iter.yielded) = 4
    /\ iter.yielded[1] = unwrap(root)
    /\ children[unwrap(root)] = <<iter.yielded[2], iter.yielded[3]>>
    /\ children[iter.yielded[3]] = <<iter.yielded[4]>>

\* C2: the traversal is finite. The iterator's whole state is `current`
\* and the borrowed tree cannot change, so an entity yielded twice is
\* yielded for ever, and a traversal that yields no entity twice yields at
\* most as many entities as there are ids: finite = no entity yielded twice.
C2_TraversalFinite ==
    \A i \in DOMAIN iter.yielded : \A j \in DOMAIN iter.yielded :
        i # j => iter.yielded[i] # iter.yielded[j]

\* C3: every entity the iterator yields is the root or below the root
\* through the children mapping.
C3_YieldsOnlyBelowRoot ==
    \A i \in DOMAIN iter.yielded :
        /\ root # None
        /\ iter.yielded[i] \in Below(Tree, {unwrap(root)})

----------------------------------------------------------------------------
(* Claims about add_child *)

\* C8: add_child(parent, child) with parent a key of `children` appends
\* child to parent's vector, sets child's parent entry, and gives child an
\* empty vector only if it had none: a vector child already had is kept.
\* (Stated for a child other than the parent itself.)
C8_AddChildKeepsChildren ==
    (last.op = "add_child" /\ contains_key(pre.children, last.a) /\ last.a # last.b) =>
        LET pushed == [pre.children EXCEPT ![last.a] = Append(@, last.b)] IN
        /\ last.result = Ok
        /\ children = IF contains_key(pushed, last.b) THEN pushed
                      ELSE MapInsert(pushed, last.b, <<>>)
        /\ parent = MapInsert(pre.parent, last.b, Some(last.a))
        /\ root = pre.root

\* C9: add_child(parent, child) with parent no key of `children`, a root set
\* and registered, and parent not the root, succeeds with exactly the effect
\* of add_child(root, child): child is at the end of the root's vector, its
\* parent entry is the root, and nothing is recorded for the unknown parent.
C9_UnknownParentFallsBackToRoot ==
    (/\ last.op = "add_child"
     /\ ~contains_key(pre.children, last.a)
     /\ pre.root # None
     /\ contains_key(pre.children, unwrap(pre.root))
     /\ last.a # unwrap(pre.root)) =>
        LET r == unwrap(pre.root) IN
        /\ last.result = Ok
        /\ Tree = add_child(pre, r, last.b).tree
        /\ children[r] = Append(pre.children[r], last.b)
        /\ get_parent(Tree, last.b) = [kind |-> "Ok", value |-> Some(r)]
        /\ last.a # last.b =>
                /\ ~contains_key(children, last.a)
                /\ ~contains_key(parent, last.a) \/ parent[last.a] = pre.parent[last.a]
        /\ \A e \in DOMAIN parent : e # last.b => parent[e] = pre.parent[e]

\* C10, as claimed: with no root set, add_child always fails, with
\* NoRootEntity for the none parent and EntityNotFound for any other.
C10_NoRootAlwaysFails ==
    (last.op = "add_child" /\ pre.root = None) =>
        /\ last.result = IF is_none(last.a) THEN NoRootEntity
                         ELSE EntityNotFound(last.a)
        /\ Tree = pre

\* C10, amended: with no root set, add_child(parent, child) fails with
\* NoRootEntity when parent is none (registered or not), fails with
\* EntityNotFound when parent is not none and no key of `children`, and
\* succeeds, linking child under parent, when parent is not none and is a
\* key of `children`. A failing call changes nothing.
C10_NoRootOutcome ==
    (last.op = "add_child" /\ pre.root = None) =>
        /\ last.result = IF is_none(last.a) THEN NoRootEntity
                         ELSE IF contains_key(pre.children, last.a) THEN Ok
                         ELSE EntityNotFound(last.a)
        /\ last.result # Ok => Tree = pre
        /\ last.result = Ok =>
                /\ root = None
                /\ last.b \in DOMAIN children
                /\ parent[last.b] = Some(last.a)
                /\ last.a # last.b => children[last.a] = Append(pre.children[last.a], last.b)

\* add_child succeeded on a tree without root
C10_Witness ==
    /\ last.op = "add_child" /\ pre.root = None
    /\ is_some(last.a) /\ last.result = Ok
    /\ last.a # last.b

----------------------------------------------------------------------------
(* Claims about the EntityComponentManager *)

\* C4: after delete_entity(e) for an entity e that create_entity returned,
\* get_component<T>(e) is empty for every T, the store holds no entry of e,
\* e is not registered in the manager's tree, and every store entry and
\* every tree node of another entity is as it was before.
C4_DeleteEntityPurges ==
    (last.op = "delete_entity" /\ last.entity \in 1..pre.entity_counter) =>
        LET e == last.entity IN
        /\ \A T \in ComponentTypes : get_component(Mgr, e, T) = None
        /\ \A k \in DOMAIN component_store : k[1] # e
        /\ ~contains_key(children, e) /\ ~contains_key(parent, e)
        /\ \A k \in DOMAIN pre.component_store :
                k[1] # e => /\ contains_key(component_store, k)
                            /\ component_store[k] = pre.component_store[k]
        /\ \A x \in DOMAIN pre.entites.children :
                x # e => /\ contains_key(children, x) /\ contains_key(parent, x)
                         /\ children[x] = pre.entites.children[x]
                         /\ parent[x] = pre.entites.parent[x]

\* a created entity holding a component was deleted while another entity
\* held a component too
C4_Witness ==
    /\ last.op = "delete_entity"
    /\ last.entity \in 1..pre.entity_counter
    /\ contains_key(pre.entites.children, last.entity)
    /\ \E k \in DOMAIN pre.component_store : k[1] = last.entity
    /\ \E k \in DOMAIN component_store : k[1] # last.entity

\* C5: right after insert_component<T>(e, v), get_component<T>(e) and
\* get_component_mut<T>(e) return v, also when the pair held another value
\* before; get_component<U>(e) stays empty for every other type U that was
\* empty on e, and get_component<T>(e2) stays empty for every other entity
\* e2 that held no T. In every state the store holds at most one entry per
\* (entity, type) pair.
C5_InsertThenGet ==
    /\ last.op = "insert_component" =>
            LET e == last.entity
                T == last.type
            IN  /\ get_component(Mgr, e, T) = Some(last.value)
                /\ get_component_mut(Mgr, e, T) = Some(last.value)
                /\ \A U \in ComponentTypes \ {T} :
                        get_component(pre, e, U) = None
                            => get_component(Mgr, e, U) = None
                /\ \A e2 \in MgrEntities \ {e} :
                        get_component(pre, e2, T) = None
                            => get_component(Mgr, e2, T) = None
    /\ \A k1 \in DOMAIN component_store : \A k2 \in DOMAIN component_store :
            (k1[1] = k2[1] /\ component_store[k1].type = component_store[k2].type)
                => k1 = k2

\* a second insert for the same pair replaced a different value
C5_Witness ==
    /\ last.op = "insert_component"
    /\ get_component(pre, last.entity, last.type) # None
    /\ get_component(pre, last.entity, last.type) # Some(last.value)
    /\ get_component(Mgr, last.entity, last.type) = Some(last.value)

\* C6: after remove_component<T>(e), get_component<T>(e) is empty and every
\* other component (another type on e, any type on another entity) is as
\* before; when e held no T the call changes nothing.
C6_RemoveComponentFrame ==
    last.op = "remove_component" =>
        LET e == last.entity
            T == last.type
        IN  /\ get_component(Mgr, e, T) = None
            /\ \A e2 \in MgrEntities : \A U \in ComponentTypes :
                    <<e2, U>> # <<e, T>>
                        => get_component(Mgr, e2, U) = get_component(pre, e2, U)
            /\ get_component(pre, e, T) = None
                    => component_store = pre.component_store

\* C7: create_entity returns 1 on a fresh manager and then the previous id
\* plus one, whatever calls are made in between: the i-th id returned is i,
\* so the ids increase strictly, 0 is never returned and no id is returned
\* twice, deleted or not.
C7_IdsCountUp ==
    /\ \A i \in DOMAIN returned : returned[i] = i
    /\ last.op = "create_entity" =>
            /\ last.entity = pre.entity_counter + 1
            /\ last.entity = returned[Len(returned)]
            /\ entity_counter = last.entity
            /\ contains_key(children, last.entity)

\* the second id was handed out after the first entity had been deleted
C7_Witness ==
    /\ last.op = "create_entity"
    /\ returned = <<1, 2>>
    /\ ~contains_key(pre.entites.children, 1)

----------------------------------------------------------------------------
(* Claims about the lookups of the tree *)

\* the entity the last call registered, if it registered one
Registered ==
    IF last.op = "insert_node" THEN {last.a}
    ELSE IF last.op = "add_child" /\ last.result = Ok THEN {last.b}
    ELSE {}

\* C11: get_children(e) and get_parent(e) fail with EntityNotFound for every
\* entity never inserted (an entity becomes a key only by the call that
\* inserts it, so a key that was none before is the one the last call
\* registered), and for the root get_parent fails with EntityNotFound while
\* get_children succeeds. (The root part is stated for a root that is
\* registered; set_root does not register it.)
C11_LookupsOfUnknownAndRoot ==
    /\ (DOMAIN children \cup DOMAIN parent) \ (DOMAIN pre.children \cup DOMAIN pre.parent)
            \subseteq Registered
    /\ \A e \in Entities \ (DOMAIN children \cup DOMAIN parent) :
            /\ get_children(Tree, e) = [kind |-> "EntityNotFound", value |-> <<e>>]
            /\ get_parent(Tree, e) = [kind |-> "EntityNotFound", value |-> <<e>>]
    /\ (root # None /\ contains_key(children, unwrap(root))) =>
            /\ get_parent(Tree, unwrap(root)).kind = "EntityNotFound"
            /\ get_children(Tree, unwrap(root)).kind = "Ok"

----------------------------------------------------------------------------
(* Claims about entities the manager did not create, and queries *)

\* the ids create_entity has returned
Created == {returned[i] : i \in DOMAIN returned}

\* the pairs of a query result that name entity e
PairsOf(result, e) == {k \in DOMAIN result : result[k][1] = e}

\* C12, as claimed: delete_entity(e) for an entity create_entity never
\* returned leaves the store, the tree and the counter as they were.
C12_DeleteUnknownIsNoOp ==
    (last.op = "delete_entity" /\ last.entity \notin Created) => Mgr = pre

\* C12, amended: delete_entity(e) for an entity create_entity never returned
\* leaves the tree and the counter as they were and removes from the store
\* exactly the entries keyed by e (insert_component attaches components to
\* ids that were never created); it changes nothing when e holds none.
C12_DeleteUnknownPurgesOrphans ==
    (last.op = "delete_entity" /\ last.entity \notin Created) =>
        LET e == last.entity IN
        /\ Tree = pre.entites
        /\ entity_counter = pre.entity_counter
        /\ DOMAIN component_store = {k \in DOMAIN pre.component_store : k[1] # e}
        /\ \A k \in DOMAIN component_store :
                component_store[k] = pre.component_store[k]
        /\ (\A k \in DOMAIN pre.component_store : k[1] # e) => Mgr = pre

\* delete_entity of a never created id removed its component and kept the
\* component of another entity
C12_Witness ==
    /\ last.op = "delete_entity" /\ last.entity \notin Created
    /\ \E k \in DOMAIN pre.component_store : k[1] = last.entity
    /\ \E k \in DOMAIN component_store : k[1] # last.entity
    /\ Mgr # pre

\* C13: query_component<T>() holds exactly the pairs (e, v) with
\* get_component<T>(e) = v: one pair for every entity holding a T, created,
\* deleted or never created, and no other pair.
C13_QueryMatchesGet ==
    \A T \in ComponentTypes :
        LET result == queury_component(Mgr, T) IN
        /\ \A k \in DOMAIN result :
                get_component(Mgr, result[k][1], T) = Some(result[k][2])
        /\ \A e \in MgrEntities :
                Cardinality(PairsOf(result, e)) =
                    IF get_component(Mgr, e, T) = None THEN 0 ELSE 1

\* a query with two pairs, one of them for an entity that is not registered
\* in the tree, while the store holds a component of another type too
C13_Witness ==
    \E T \in ComponentTypes :
        LET result == queury_component(Mgr, T) IN
        /\ Cardinality(DOMAIN result) = 2
        /\ \E k \in DOMAIN result : ~contains_key(children, result[k][1])
        /\ \E k \in DOMAIN component_store : component_store[k].type # T

\* C19, as claimed: right after create_entity returns e, get_component<T>(e)
\* is empty for every T and no query holds a pair for e.
C19_FreshEntityHasNoComponents ==
    last.op = "create_entity" =>
        \A T \in ComponentTypes :
            /\ get_component(Mgr, last.entity, T) = None
            /\ PairsOf(queury_component(Mgr, T), last.entity) = {}

\* C19, amended: right after create_entity returns e, e is newly registered
\* and holds exactly the components insert_component attached to the id e
\* before it was created; when the store holds no component of an id not
\* yet created, get_component<T>(e) is empty for every T and no query holds
\* a pair for e.
C19_FreshEntityHoldsOnlyOrphans ==
    last.op = "create_entity" =>
        LET e == last.entity IN
        /\ ~contains_key(pre.entites.children, e)
        /\ contains_key(children, e)
        /\ \A T \in ComponentTypes :
                /\ get_component(Mgr, e, T) = get_component(pre, e, T)
                /\ PairsOf(queury_component(Mgr, T), e)
                        = PairsOf(queury_component(pre, T), e)
        /\ (\A k \in DOMAIN pre.component_store : k[1] <= pre.entity_counter) =>
                \A T \in ComponentTypes :
                    /\ get_component(Mgr, e, T) = None
                    /\ PairsOf(queury_component(Mgr, T), e) = {}

\* a second entity was created while the first held a component, and it
\* holds none
C19_Witness ==
    /\ last.op = "create_entity" /\ last.entity = 2
    /\ \E k \in DOMAIN component_store : k[1] = 1
    /\ \A k \in DOMAIN component_store : k[1] # 2

----------------------------------------------------------------------------
(* Claims about faults of the traversal, remove and the two mappings *)

\* C14: an entity the traversal yields that is missing from the children
\* mapping is the last one it yields: the next call of next() panics, it
\* returns neither None nor another entity.
C14_MissingEntityPanics ==
    iter.active =>
        /\ \A i \in DOMAIN iter.yielded :
                ~contains_key(children, iter.yielded[i]) =>
                    /\ i = Len(iter.yielded)
                    /\ iter.status \in {"running", "Panic"}
        /\ (iter.current # None /\ ~contains_key(children, unwrap(iter.current)))
                => next(Tree, iter.current).kind = "Panic"

\* the traversal yielded the root, then a child that was removed and is still
\* listed by the root, and the call after that panicked
C14_Witness ==
    /\ iter.active /\ iter.status = "Panic"
    /\ Len(iter.yielded) >= 2
    /\ ~contains_key(children, iter.yielded[Len(iter.yielded)])
    /\ last.op = "into_iter"
    /\ \E p \in DOMAIN children : \E i \in DOMAIN children[p] :
            children[p][i] = iter.yielded[Len(iter.yielded)]

\* C15: remove(e) deletes e's entries of the two mappings and nothing else:
\* the root, every other children sequence and every other parent entry
\* are as before the call.
C15_RemoveFrame ==
    last.op = "remove" =>
        /\ root = pre.root
        /\ DOMAIN children = DOMAIN pre.children \ {last.a}
        /\ DOMAIN parent = DOMAIN pre.parent \ {last.a}
        /\ \A x \in DOMAIN children : children[x] = pre.children[x]
        /\ \A x \in DOMAIN parent : parent[x] = pre.parent[x]

\* the removed entity had a parent, which still lists it, and a child, which
\* still points to it
C15_Witness ==
    /\ last.op = "remove"
    /\ contains_key(pre.parent, last.a) /\ pre.parent[last.a] # None
    /\ contains_key(children, unwrap(pre.parent[last.a]))
    /\ \E i \in DOMAIN children[unwrap(pre.parent[last.a])] :
            children[unwrap(pre.parent[last.a])][i] = last.a
    /\ \E c \in DOMAIN parent :
            parent[c] = Some(last.a) /\ Some(c) # pre.parent[last.a]

\* C16: the children mapping and the parent mapping have the same key set,
\* and len() is the number of those keys.
C16_SameKeys ==
    /\ DOMAIN children = DOMAIN parent
    /\ len(Tree) = Cardinality(DOMAIN parent)

\* two entities are registered, one by add_child, after a remove
C16_Witness ==
    /\ last.op = "remove" /\ contains_key(pre.children, last.a)
    /\ len(Tree) = 2
    /\ \E c \in DOMAIN parent : parent[c] # None

\* C17: an add_child call that returns an error leaves the root and the two
\* mappings as they were.
C17_FailedAddChildChangesNothing ==
    (last.op = "add_child" /\ last.result # Ok) => Tree = pre

\* the retry on the root failed, the root not being registered, in a tree
\* that had registered entities
C17_Witness ==
    /\ last.op = "add_child" /\ root # None
    /\ last.result = EntityNotFound(unwrap(root))
    /\ last.a # unwrap(root)
    /\ DOMAIN children # {}

\* the number of occurrences of c in the sequence s
Occurrences(s, c) == Cardinality({i \in DOMAIN s : s[i] = c})

\* C18: without remove, get_parent(c) returns p exactly when c occurs in
\* get_children(p), and then it occurs there once.  (Stated for a c other
\* than p.)
C18_ParentAndChildrenAgree ==
    \A c \in Entities : \A p \in Entities \ {c} :
        LET listed == IF get_children(Tree, p).kind = "Ok"
                      THEN Occurrences(get_children(Tree, p).value, c)
                      ELSE 0
        IN  /\ get_parent(Tree, c) = [kind |-> "Ok", value |-> Some(p)] => listed = 1
            /\ listed > 0 =>
                    /\ get_parent(Tree, c) = [kind |-> "Ok", value |-> Some(p)]
                    /\ listed = 1

\* C20: once next() has returned None, every later call returns None and
\* yields nothing more; with no root every call returns None.
C20_NonRestartable ==
    iter.active =>
        /\ iter.nones >= 1 => iter.status = "None"
        /\ iter.status = "None" =>
                /\ next(Tree, iter.current).kind = "None"
                /\ next(Tree, iter.current).current = iter.current
        /\ root = None =>
                /\ iter.yielded = <<>>
                /\ iter.status \in {"running", "None"}
                /\ next(Tree, iter.current).kind = "None"

\* a traversal of three entities was followed by two calls returning None
C20_Witness ==
    /\ iter.active /\ iter.status = "None"
    /\ iter.nones = 2
    /\ Len(iter.yielded) = 3

====
